---- MODULE Spec2Model ----
(***************************************************************************)
(* Model of the command handlers of neuropoet-tgbot/src/commands.py:       *)
(* cmd_emotions, cmd_format (/generate), cmd_history and cmd_health.       *)
(*                                                                         *)
(* A step is the code a handler runs between two suspensions (awaits on   *)
(* a collaborator).  The collaborators (emotion client, poetry client,     *)
(* History Store, the handle getters of the global state) answer           *)
(* nondeterministically: a result, a falsy result, or an exception.        *)
(* message.reply of the text commands is taken to deliver the notice it    *)
(* is given; in cmd_health the edits and reactions inside the try block    *)
(* may raise, those of its except block are taken to be delivered.         *)
(***************************************************************************)
EXTENDS Integers, Sequences, FiniteSets, TLC

VARIABLES
    pc,             \* per operation: the await the handler is suspended at
    kind,           \* per operation: which command handler runs it
    user,           \* per operation: message.from_user.id
    msg,            \* per operation: message.text, a sequence of characters
    text,           \* per operation: local `text`
    emotions,       \* per operation: local `response.emotions` / `emotions`
    poem,           \* per operation: local `poem`
    limit,          \* per operation: local `limit` of cmd_history
    notice,         \* per operation: the reply the handler ended with
    calls,          \* per operation: the collaborator calls made, in order
    emotionLog,     \* History Store: EmotionRecords, in insertion order
    generationLog,  \* History Store: GenerationRecords, in insertion order
    hpc,            \* cmd_health: position of the handler
    status,         \* cmd_health: local dict `status`
    ppc,            \* cmd_health: per service, position of check_service
    outcome,        \* cmd_health: per service, how the probe's wait_for ended
    lines,          \* cmd_health: per service, `lines` of its update_message
    displayed,      \* cmd_health: text of sent_reply as last edited
    reaction,       \* cmd_health: reaction last set on the message
    cause           \* cmd_health: what raised into the handler's except

cmdVars == <<pc, kind, user, msg, text, emotions, poem, limit, notice, calls,
             emotionLog, generationLog>>
healthVars == <<hpc, status, ppc, outcome, lines, displayed, reaction, cause>>
vars == <<pc, kind, user, msg, text, emotions, poem, limit, notice, calls,
          emotionLog, generationLog,
          hpc, status, ppc, outcome, lines, displayed, reaction, cause>>

-----------------------------------------------------------------------------
(* Bounds and input sets *)

MaxTail == 2
MaxArgTail == 4

Ops == {"op1", "op2"}
Users == {"u1", "u2"}
Whitespace == {" "}
TextChars == {" ", "a"}

Null == [null |-> TRUE]
EmotionMaps == {[happy |-> 9, sad |-> 1], [happy |-> 1, sad |-> 9]}
Poems == {"poem1", "poem2"}

SeqsUpTo(S, n) == UNION {[1..k -> S] : k \in 0..n}

\* What follows the command token in a message the Command filter lets through:
\* nothing, or whitespace and then anything.
Tails(chars, n) == {t \in SeqsUpTo(chars, n) : t = <<>> \/ t[1] \in Whitespace}

\* message.text of a text command: the command token and what follows it.
TextMessages == {<<"/">> \o t : t \in Tails(TextChars, MaxTail)}

-----------------------------------------------------------------------------
(* str.split *)

RECURSIVE LStrip(_)
LStrip(s) ==
    IF s # <<>> /\ Head(s) \in Whitespace THEN LStrip(Tail(s)) ELSE s

RECURSIVE FirstToken(_)
FirstToken(s) ==
    IF s = <<>> \/ Head(s) \in Whitespace THEN <<>>
    ELSE <<Head(s)>> \o FirstToken(Tail(s))

RECURSIVE AfterToken(_)
AfterToken(s) ==
    IF s = <<>> \/ Head(s) \in Whitespace THEN s ELSE AfterToken(Tail(s))

\* s.split(maxsplit=1): the first word and, if anything but whitespace follows
\* it, the remainder with its leading whitespace removed (trailing kept).
SplitMax1(s) ==
    LET body == LStrip(s)
        rest == LStrip(AfterToken(body))
    IN  IF body = <<>> THEN <<>>
        ELSE IF rest = <<>> THEN <<FirstToken(body)>>
        ELSE <<FirstToken(body), rest>>

\* Mutant of TextArg: split(" ", 1), which keeps a whitespace-only remainder.
TextArg_unstripped(m) ==
    LET rest == AfterToken(LStrip(m))
    IN  IF rest = <<>> THEN <<>> ELSE Tail(rest)

\* command, *args = message.text.split(maxsplit=1); text = args[0] if args else ""
TextArg(m) ==
    LET parts == SplitMax1(m)
    IN  IF Len(parts) > 1 THEN parts[2] ELSE <<>>

-----------------------------------------------------------------------------
(* Shared pieces of the text command handlers *)

\* `calls` is the record a test double keeps: each call of a collaborator with
\* its arguments, each response of a service client, each exception raised.
Step(o, events, next) ==
    /\ calls' = [calls EXCEPT ![o] = @ \o events]
    /\ pc' = [pc EXCEPT ![o] = next]
    /\ UNCHANGED notice

\* await message.reply(...) and the handler returns.
Reply(o, events, n) ==
    /\ calls' = [calls EXCEPT ![o] = @ \o events]
    /\ notice' = [notice EXCEPT ![o] = n]
    /\ pc' = [pc EXCEPT ![o] = "done"]

\* Mutant of Raised: no except clause, the exception leaves the handler.
Raised_propagates(o, events, where) ==
    /\ calls' = [calls EXCEPT ![o] = @ \o events \o << <<"raised", where>> >>]
    /\ pc' = [pc EXCEPT ![o] = "propagated"]
    /\ UNCHANGED notice

\* except Exception (lines 98-100, 155-157, 211-213): the generic failure notice.
Raised(o, events, where) ==
    Reply(o, events \o << <<"raised", where>> >>, <<"error">>)

\* Lines 89, 131 and 144-148: what the handlers hand to the History Store.
EmotionRecord(u, e) == [user_id |-> u, emotions |-> e]

GenerationRecord(u, t, p) == [user_id |-> u, request_text |-> t, response_text |-> p]

\* The message a handler is dispatched with.
Receive(o, k, u, m) ==
    /\ kind' = [kind EXCEPT ![o] = k]
    /\ user' = [user EXCEPT ![o] = u]
    /\ msg' = [msg EXCEPT ![o] = m]

-----------------------------------------------------------------------------
(* cmd_emotions *)

\* Lines 64-72: parse the argument; without one, the notice and return.
cmd_emotions_parse(o) ==
    /\ pc[o] = "idle"
    /\ \E u \in Users, m \in TextMessages :
        /\ Receive(o, "emotions", u, m)
        /\ text' = [text EXCEPT ![o] = TextArg(m)]
        /\ IF TextArg(m) = <<>>
           THEN Reply(o, <<>>, <<"missing_argument">>)
           ELSE Step(o, <<>>, "get_emotion_api")
        /\ UNCHANGED <<emotions, poem, limit, emotionLog, generationLog>>
        /\ UNCHANGED healthVars

\* Lines 72-80: the handle, then the request is built and sent.
cmd_emotions_get_emotion_api(o) ==
    /\ kind[o] = "emotions" /\ pc[o] = "get_emotion_api"
    /\ \/ Step(o, << <<"analyze_emotions", user[o], text[o]>> >>, "analyze_emotions")
       \/ Raised(o, <<>>, "get_emotion_api")
    /\ UNCHANGED <<kind, user, msg, text, emotions, poem, limit, emotionLog, generationLog>>
    /\ UNCHANGED healthVars

\* Mutant of cmd_emotions_analyze: no `if response:`, a falsy response is
\* logged like a result.
cmd_emotions_analyze_unchecked(o) ==
    /\ kind[o] = "emotions" /\ pc[o] = "analyze_emotions"
    /\ \/ \E e \in EmotionMaps :
            /\ emotions' = [emotions EXCEPT ![o] = e]
            /\ Step(o, << <<"response", "analyze_emotions", e>> >>, "get_database")
       \/ /\ Step(o, << <<"response", "analyze_emotions", Null>> >>, "get_database")
          /\ UNCHANGED emotions
       \/ /\ Raised(o, <<>>, "analyze_emotions")
          /\ UNCHANGED emotions
    /\ UNCHANGED <<kind, user, msg, text, poem, limit, emotionLog, generationLog>>
    /\ UNCHANGED healthVars

\* Lines 80-88, 95-96: the response; a falsy one ends with the unavailable
\* notice, a result goes on to the store handle.
cmd_emotions_analyze(o) ==
    /\ kind[o] = "emotions" /\ pc[o] = "analyze_emotions"
    /\ \/ \E e \in EmotionMaps :
            /\ emotions' = [emotions EXCEPT ![o] = e]
            /\ Step(o, << <<"response", "analyze_emotions", e>> >>, "get_database")
       \/ /\ Reply(o, << <<"response", "analyze_emotions", Null>> >>,
                   <<"emotion_unavailable">>)
          /\ UNCHANGED emotions
       \/ /\ Raised(o, <<>>, "analyze_emotions")
          /\ UNCHANGED emotions
    /\ UNCHANGED <<kind, user, msg, text, poem, limit, emotionLog, generationLog>>
    /\ UNCHANGED healthVars

\* Lines 88-94: the store handle, the write, the reply.
cmd_emotions_log(o) ==
    /\ kind[o] = "emotions" /\ pc[o] = "get_database"
    /\ \/ /\ emotionLog' = Append(emotionLog, EmotionRecord(user[o], emotions[o]))
          /\ Reply(o, << <<"log_emotion_analysis", user[o], emotions[o]>> >>,
                   <<"emotions", emotions[o]>>)
       \/ /\ Raised(o, <<>>, "get_database")
          /\ UNCHANGED emotionLog
       \/ /\ Raised(o, <<>>, "log_emotion_analysis")
          /\ UNCHANGED emotionLog
    /\ UNCHANGED <<kind, user, msg, text, emotions, poem, limit, generationLog>>
    /\ UNCHANGED healthVars

-----------------------------------------------------------------------------
(* cmd_format (/generate) *)

\* Lines 107-115.
cmd_format_parse(o) ==
    /\ pc[o] = "idle"
    /\ \E u \in Users, m \in TextMessages :
        /\ Receive(o, "generate", u, m)
        /\ text' = [text EXCEPT ![o] = TextArg(m)]
        /\ IF TextArg(m) = <<>>
           THEN Reply(o, <<>>, <<"missing_argument">>)
           ELSE Step(o, <<>>, "get_emotion_api")
        /\ UNCHANGED <<emotions, poem, limit, emotionLog, generationLog>>
        /\ UNCHANGED healthVars

\* Lines 115-117: the emotion and the poetry handle, one await each.
cmd_format_get_handle(o) ==
    /\ kind[o] = "generate"
    /\ pc[o] \in {"get_emotion_api", "get_poetry_api"}
    /\ \/ Step(o, <<>>, IF pc[o] = "get_emotion_api"
                        THEN "get_poetry_api" ELSE "get_database")
       \/ Raised(o, <<>>, pc[o])
    /\ UNCHANGED <<kind, user, msg, text, emotions, poem, limit, emotionLog, generationLog>>
    /\ UNCHANGED healthVars

\* Lines 117-124: the store handle, then the emotion request is built and sent.
cmd_format_get_database(o) ==
    /\ kind[o] = "generate" /\ pc[o] = "get_database"
    /\ \/ Step(o, << <<"analyze_emotions", user[o], text[o]>> >>, "analyze_emotions")
       \/ Raised(o, <<>>, "get_database")
    /\ UNCHANGED <<kind, user, msg, text, emotions, poem, limit, emotionLog, generationLog>>
    /\ UNCHANGED healthVars

\* Mutant of cmd_format_analyze: no `if not emotion_response:`, the poem is
\* requested whatever the emotion client answered.
cmd_format_analyze_unchecked(o) ==
    /\ kind[o] = "generate" /\ pc[o] = "analyze_emotions"
    /\ \E e \in EmotionMaps \cup {Null} :
            /\ emotions' = [emotions EXCEPT ![o] = e]
            /\ emotionLog' = Append(emotionLog, EmotionRecord(user[o], e))
            /\ Step(o, << <<"response", "analyze_emotions", e>>,
                          <<"log_emotion_analysis", user[o], e>>,
                          <<"PoetryGenerationRequestDto", user[o], e>>,
                          <<"generate_poem", user[o], e>> >>,
                    "generate_poem")
    /\ UNCHANGED <<kind, user, msg, text, poem, limit, generationLog>>
    /\ UNCHANGED healthVars

\* Mutant of cmd_format_analyze: the PoemRequest is built and sent before the
\* EmotionRecord is written.
cmd_format_analyze_request_first(o) ==
    /\ kind[o] = "generate" /\ pc[o] = "analyze_emotions"
    /\ \/ \E e \in EmotionMaps :
            /\ emotions' = [emotions EXCEPT ![o] = e]
            /\ emotionLog' = Append(emotionLog, EmotionRecord(user[o], e))
            /\ Step(o, << <<"response", "analyze_emotions", e>>,
                          <<"PoetryGenerationRequestDto", user[o], e>>,
                          <<"generate_poem", user[o], e>>,
                          <<"log_emotion_analysis", user[o], e>> >>,
                    "generate_poem")
       \/ /\ Reply(o, << <<"response", "analyze_emotions", Null>> >>,
                   <<"emotion_unavailable">>)
          /\ UNCHANGED <<emotions, emotionLog>>
    /\ UNCHANGED <<kind, user, msg, text, poem, limit, generationLog>>
    /\ UNCHANGED healthVars

\* Mutant of cmd_format_analyze: the PoemRequest takes its emotions from the
\* first record the History Store holds for the user, not from this response.
cmd_format_analyze_from_store(o) ==
    /\ kind[o] = "generate" /\ pc[o] = "analyze_emotions"
    /\ \/ \E e \in EmotionMaps :
            /\ emotions' = [emotions EXCEPT ![o] = e]
            /\ emotionLog' = Append(emotionLog, EmotionRecord(user[o], e))
            /\ LET mine == {i \in 1..Len(emotionLog') : emotionLog'[i].user_id = user[o]}
                   first == CHOOSE i \in mine : \A j \in mine : i <= j
                   stored == emotionLog'[first].emotions
               IN  Step(o, << <<"response", "analyze_emotions", e>>,
                              <<"log_emotion_analysis", user[o], e>>,
                              <<"PoetryGenerationRequestDto", user[o], stored>>,
                              <<"generate_poem", user[o], stored>> >>,
                        "generate_poem")
       \/ /\ Reply(o, << <<"response", "analyze_emotions", Null>> >>,
                   <<"emotion_unavailable">>)
          /\ UNCHANGED <<emotions, emotionLog>>
       \/ /\ Raised(o, <<>>, "analyze_emotions")
          /\ UNCHANGED <<emotions, emotionLog>>
    /\ UNCHANGED <<kind, user, msg, text, poem, limit, generationLog>>
    /\ UNCHANGED healthVars

\* Lines 124-137: the emotion response.  A falsy one ends with the notice.
\* Otherwise the EmotionRecord is written, the PoemRequest is built from the
\* same emotions and sent, with no await in between.
cmd_format_analyze(o) ==
    /\ kind[o] = "generate" /\ pc[o] = "analyze_emotions"
    /\ \/ \E e \in EmotionMaps :
            /\ emotions' = [emotions EXCEPT ![o] = e]
            /\ emotionLog' = Append(emotionLog, EmotionRecord(user[o], e))
            /\ Step(o, << <<"response", "analyze_emotions", e>>,
                          <<"log_emotion_analysis", user[o], e>>,
                          <<"PoetryGenerationRequestDto", user[o], e>>,
                          <<"generate_poem", user[o], e>> >>,
                    "generate_poem")
       \/ \E e \in EmotionMaps :
            /\ emotions' = [emotions EXCEPT ![o] = e]
            /\ Raised(o, << <<"response", "analyze_emotions", e>> >>,
                      "log_emotion_analysis")
            /\ UNCHANGED emotionLog
       \/ /\ Reply(o, << <<"response", "analyze_emotions", Null>> >>,
                   <<"emotion_unavailable">>)
          /\ UNCHANGED <<emotions, emotionLog>>
       \/ /\ Raised(o, <<>>, "analyze_emotions")
          /\ UNCHANGED <<emotions, emotionLog>>
    /\ UNCHANGED <<kind, user, msg, text, poem, limit, generationLog>>
    /\ UNCHANGED healthVars

\* Mutant of cmd_format_generate: no `if not poetry_response:`, a falsy
\* response is logged and sent like a poem.
cmd_format_generate_unchecked(o) ==
    /\ kind[o] = "generate" /\ pc[o] = "generate_poem"
    /\ \E p \in Poems \cup {"none"} :
            /\ poem' = [poem EXCEPT ![o] = p]
            /\ generationLog' =
                   Append(generationLog, GenerationRecord(user[o], text[o], p))
            /\ Reply(o, << <<"response", "generate_poem", p>>,
                           <<"log_generation", user[o], text[o], p>> >>,
                     <<"poem", p>>)
    /\ UNCHANGED <<kind, user, msg, text, emotions, limit, emotionLog>>
    /\ UNCHANGED healthVars

\* Mutant of cmd_format_generate: request_text=message.text, the command
\* token included.
cmd_format_generate_logs_message(o) ==
    /\ kind[o] = "generate" /\ pc[o] = "generate_poem"
    /\ \/ \E p \in Poems :
            /\ poem' = [poem EXCEPT ![o] = p]
            /\ generationLog' =
                   Append(generationLog, GenerationRecord(user[o], msg[o], p))
            /\ Reply(o, << <<"response", "generate_poem", p>>,
                           <<"log_generation", user[o], msg[o], p>> >>,
                     <<"poem", p>>)
       \/ /\ Reply(o, << <<"response", "generate_poem", "none">> >>,
                   <<"poetry_unavailable">>)
          /\ UNCHANGED <<poem, generationLog>>
    /\ UNCHANGED <<kind, user, msg, text, emotions, limit, emotionLog>>
    /\ UNCHANGED healthVars

\* Lines 137-153: the poetry response.  A falsy one ends with the notice.
\* Otherwise the GenerationRecord is written and the poem is the reply.
cmd_format_generate(o) ==
    /\ kind[o] = "generate" /\ pc[o] = "generate_poem"
    /\ \/ \E p \in Poems :
            /\ poem' = [poem EXCEPT ![o] = p]
            /\ generationLog' =
                   Append(generationLog, GenerationRecord(user[o], text[o], p))
            /\ Reply(o, << <<"response", "generate_poem", p>>,
                           <<"log_generation", user[o], text[o], p>> >>,
                     <<"poem", p>>)
       \/ \E p \in Poems :
            /\ poem' = [poem EXCEPT ![o] = p]
            /\ Raised(o, << <<"response", "generate_poem", p>> >>, "log_generation")
            /\ UNCHANGED generationLog
       \/ /\ Reply(o, << <<"response", "generate_poem", "none">> >>,
                   <<"poetry_unavailable">>)
          /\ UNCHANGED <<poem, generationLog>>
       \/ /\ Raised(o, <<>>, "generate_poem")
          /\ UNCHANGED <<poem, generationLog>>
    /\ UNCHANGED <<kind, user, msg, text, emotions, limit, emotionLog>>
    /\ UNCHANGED healthVars

-----------------------------------------------------------------------------
(* cmd_history *)

DecimalChars == {"0", "1", "2", "7"}
\* str.isdigit also accepts digits that int() rejects, such as superscripts.
DigitChars == DecimalChars \cup {"²"}
HistoryChars == {" ", "-", "x"} \cup DigitChars

DigitValue(c) ==
    CASE c = "0" -> 0 [] c = "1" -> 1 [] c = "2" -> 2 [] c = "7" -> 7

\* s.split(): the words of s.
RECURSIVE Split(_)
Split(s) ==
    LET body == LStrip(s)
    IN  IF body = <<>> THEN <<>>
        ELSE <<FirstToken(body)>> \o Split(AfterToken(body))

\* token.isdigit()
IsDigit(token) ==
    /\ token # <<>>
    /\ \A i \in 1..Len(token) : token[i] \in DigitChars

\* int(token) raises ValueError unless every character is a decimal digit.
IntRaises(token) == \E i \in 1..Len(token) : token[i] \notin DecimalChars

RECURSIVE ParseInt(_)
ParseInt(token) ==
    IF token = <<>> THEN 0
    ELSE 10 * ParseInt(SubSeq(token, 1, Len(token) - 1)) + DigitValue(token[Len(token)])

Min(a, b) == IF a < b THEN a ELSE b

DefaultLimit == 5
MaxLimit == 20

\* Lines 164-169: args of the message, and whether the limit is taken from them.
HistoryArgs(m) == Tail(Split(m))

LimitGiven(args) == args # <<>> /\ IsDigit(args[1])

\* Mutant of HistoryLimit: max(int(args[0]), 20).
HistoryLimit_max(args) ==
    IF LimitGiven(args)
    THEN (IF ParseInt(args[1]) > MaxLimit THEN ParseInt(args[1]) ELSE MaxLimit)
    ELSE DefaultLimit

\* Mutant of HistoryLimit: limit = int(args[0]), not capped.
HistoryLimit_unclamped(args) ==
    IF LimitGiven(args) THEN ParseInt(args[1]) ELSE DefaultLimit

HistoryLimit(args) ==
    IF LimitGiven(args) THEN Min(ParseInt(args[1]), MaxLimit) ELSE DefaultLimit

\* get_user_history(user_id, limit): per kind, up to `limit` of the user's
\* records, most recent first.
RECURSIVE RecentFor(_, _, _)
RecentFor(log, u, n) ==
    IF n <= 0 \/ log = <<>> THEN <<>>
    ELSE LET last == log[Len(log)]
             before == SubSeq(log, 1, Len(log) - 1)
         IN  IF last.user_id = u
             THEN <<last>> \o RecentFor(before, u, n - 1)
             ELSE RecentFor(before, u, n)

\* max(emotion.emotions.items(), key=lambda x: x[1]): the first label, in the
\* mapping's order, whose score no other exceeds.
TopEmotion(e) ==
    IF e.happy >= e.sad THEN <<"happy", e.happy>> ELSE <<"sad", e.sad>>

\* message.text of /history.
HistoryMessages == {<<"/">> \o t : t \in Tails(HistoryChars, MaxArgTail)}

\* Lines 163-172: the limit; int() may raise into the handler's except.
cmd_history_parse(o) ==
    /\ pc[o] = "idle"
    /\ \E u \in Users, m \in HistoryMessages :
        LET args == HistoryArgs(m)
        IN  /\ Receive(o, "history", u, m)
            /\ IF LimitGiven(args) /\ IntRaises(args[1])
               THEN /\ Raised(o, <<>>, "int")
                    /\ UNCHANGED limit
               ELSE /\ limit' = [limit EXCEPT ![o] = HistoryLimit(args)]
                    /\ Step(o, <<>>, "get_database")
            /\ UNCHANGED <<text, emotions, poem, emotionLog, generationLog>>
            /\ UNCHANGED healthVars

\* Lines 172-209: the query and the reply built from its result.
cmd_history_query(o) ==
    /\ kind[o] = "history" /\ pc[o] = "get_database"
    /\ \/ LET found == [emotions |-> RecentFor(emotionLog, user[o], limit[o]),
                        generations |-> RecentFor(generationLog, user[o], limit[o])]
              query == << <<"get_user_history", user[o], limit[o]>> >>
          IN  IF found.emotions = <<>> /\ found.generations = <<>>
              THEN Reply(o, query, <<"empty_history">>)
              ELSE Reply(o, query, <<"history",
                        [i \in 1..Len(found.emotions) |->
                            TopEmotion(found.emotions[i].emotions)],
                        found.generations>>)
       \/ Raised(o, <<>>, "get_database")
       \/ Raised(o, <<>>, "get_user_history")
    /\ UNCHANGED <<kind, user, msg, text, emotions, poem, limit, emotionLog, generationLog>>
    /\ UNCHANGED healthVars

-----------------------------------------------------------------------------
(* cmd_health *)

\* Line 219.
service_order == <<"emotion", "poetry", "database">>
Services == {service_order[i] : i \in DOMAIN service_order}

\* Lines 229-234: one line of the status table.
StatusLine(name, st) ==
    IF st = "checking" THEN <<"hourglass", name>>
    ELSE IF st = "success" THEN <<"check_mark", name>>
    ELSE <<"crossout", name>>

\* Lines 227-235: `lines` of update_message, from the status dict as it is.
StatusLines(st) ==
    [i \in DOMAIN service_order |-> StatusLine(service_order[i], st[service_order[i]])]

\* Lines 251-253: the status a probe ends with.  wait_for returns the checker's
\* result, re-raises what the checker raised, or raises TimeoutError after 10 s.
ProbeOutcomes == {"true", "false", "raised", "timeout"}

\* Mutant of ProbeStatus: the timeout is swallowed without a status.
ProbeStatus_timeout_ignored(how) ==
    IF how = "true" THEN "success" ELSE IF how = "timeout" THEN "checking" ELSE "error"

ProbeStatus(how) == IF how = "true" THEN "success" ELSE "error"

\* Mutant of final_emoji: any(...) for all(...).
final_emoji_any(st) ==
    IF \E name \in DOMAIN st : st[name] = "success" THEN "thumbs_up" ELSE "thumbs_down"

\* Line 269.
final_emoji(st) ==
    IF \A name \in DOMAIN st : st[name] = "success" THEN "thumbs_up" ELSE "thumbs_down"

\* An exception reaches `except Exception` of cmd_health (line 272); the
\* edit of line 273 is then under way.
HealthRaise(why) ==
    /\ hpc' = "except"
    /\ cause' = why

\* Lines 218-223: the banner, the status dict, the first reaction requested.
cmd_health_reply ==
    /\ hpc = "idle"
    /\ hpc' = "react"
    /\ displayed' = <<"banner">>
    /\ status' = [name \in Services |-> "checking"]
    /\ UNCHANGED <<ppc, outcome, lines, reaction, cause>>
    /\ UNCHANGED cmdVars

\* Lines 223-240: the reaction is set; the first table is computed and sent.
cmd_health_react ==
    /\ hpc = "react"
    /\ \/ /\ reaction' = "think"
          /\ hpc' = "update"
          /\ UNCHANGED cause
       \/ /\ HealthRaise("react")
          /\ UNCHANGED reaction
    /\ UNCHANGED <<status, ppc, outcome, lines, displayed>>
    /\ UNCHANGED cmdVars

\* Lines 240, 262: the first table is shown; the handles are asked for.
cmd_health_update ==
    /\ hpc = "update"
    /\ \/ /\ displayed' = <<"table", StatusLines(status)>>
          /\ hpc' = "handles"
          /\ UNCHANGED cause
       \/ /\ HealthRaise("update_message")
          /\ UNCHANGED displayed
    /\ UNCHANGED <<status, ppc, outcome, lines, reaction>>
    /\ UNCHANGED cmdVars

\* Lines 259-266: with the three handles, gather starts one check_service per
\* service; each runs to its wait_for.
cmd_health_gather ==
    /\ hpc = "handles"
    /\ \/ /\ ppc' = [name \in Services |-> "wait_for"]
          /\ hpc' = "gather"
          /\ UNCHANGED cause
       \/ /\ \E getter \in {"get_emotion_api", "get_poetry_api", "get_database"} :
                HealthRaise(getter)
          /\ UNCHANGED ppc
    /\ UNCHANGED <<status, outcome, lines, displayed, reaction>>
    /\ UNCHANGED cmdVars

\* Mutant of check_service: the checker is awaited again while the edit of the
\* first result is under way, and its result is written again.
check_service_retried(name) ==
    /\ ppc[name] \in {"wait_for", "edit_text"}
    /\ \E how \in ProbeOutcomes :
        /\ outcome' = [outcome EXCEPT ![name] = how]
        /\ status' = [status EXCEPT ![name] = ProbeStatus(how)]
        /\ lines' = [lines EXCEPT ![name] = StatusLines(status')]
    /\ ppc' = [ppc EXCEPT ![name] = "edit_text"]
    /\ UNCHANGED <<hpc, displayed, reaction, cause>>
    /\ UNCHANGED cmdVars

\* Mutant of check_service: the probe writes back the copy of the dict it was
\* started with, changed at its own key.
check_service_stale_copy(name) ==
    /\ ppc[name] = "wait_for"
    /\ \E how \in ProbeOutcomes :
        /\ outcome' = [outcome EXCEPT ![name] = how]
        /\ status' = [[other \in Services |-> "checking"] EXCEPT ![name] = ProbeStatus(how)]
        /\ lines' = [lines EXCEPT ![name] = StatusLines(status')]
    /\ ppc' = [ppc EXCEPT ![name] = "edit_text"]
    /\ UNCHANGED <<hpc, displayed, reaction, cause>>
    /\ UNCHANGED cmdVars

\* Mutant of check_service: no `except Exception`, what the checker raises
\* leaves check_service after the finally clause has rendered.
check_service_uncaught(name) ==
    /\ ppc[name] = "wait_for"
    /\ \E how \in ProbeOutcomes :
        /\ outcome' = [outcome EXCEPT ![name] = how]
        /\ status' = IF how \in {"raised", "timeout"}
                     THEN status
                     ELSE [status EXCEPT ![name] = ProbeStatus(how)]
        /\ lines' = [lines EXCEPT ![name] = StatusLines(status')]
        /\ ppc' = [ppc EXCEPT ![name] =
                       IF how \in {"raised", "timeout"} THEN "raised" ELSE "edit_text"]
    /\ UNCHANGED <<hpc, displayed, reaction, cause>>
    /\ UNCHANGED cmdVars

\* Lines 246-256, 227-237: wait_for ends; the status is set and, in the same
\* step, update_message computes `lines` and sends the edit.
check_service(name) ==
    /\ ppc[name] = "wait_for"
    /\ \E how \in ProbeOutcomes :
        /\ outcome' = [outcome EXCEPT ![name] = how]
        /\ status' = [status EXCEPT ![name] = ProbeStatus(how)]
        /\ lines' = [lines EXCEPT ![name] = StatusLines(status')]
    /\ ppc' = [ppc EXCEPT ![name] = "edit_text"]
    /\ UNCHANGED <<hpc, displayed, reaction, cause>>
    /\ UNCHANGED cmdVars

\* Line 237 in a probe: the edit is applied and check_service returns, or
\* edit_text raises out of check_service.
update_message(name) ==
    /\ ppc[name] = "edit_text"
    /\ \/ /\ displayed' = <<"table", lines[name]>>
          /\ ppc' = [ppc EXCEPT ![name] = "done"]
       \/ /\ ppc' = [ppc EXCEPT ![name] = "raised"]
          /\ UNCHANGED displayed
    /\ UNCHANGED <<hpc, status, outcome, lines, reaction, cause>>
    /\ UNCHANGED cmdVars

\* Mutant of cmd_health_final: gather returns with the first check_service
\* that has returned (FIRST_COMPLETED).
cmd_health_final_first_completed ==
    /\ hpc = "gather"
    /\ \E name \in Services : ppc[name] = "done"
    /\ reaction' = final_emoji(status)
    /\ hpc' = "done"
    /\ UNCHANGED <<status, ppc, outcome, lines, displayed, cause>>
    /\ UNCHANGED cmdVars

\* Lines 259, 269-270: gather returns once every check_service has returned;
\* the final reaction is chosen from the status dict and set.
cmd_health_final ==
    /\ hpc = "gather"
    /\ \A name \in Services : ppc[name] = "done"
    /\ \/ /\ reaction' = final_emoji(status)
          /\ hpc' = "done"
          /\ UNCHANGED cause
       \/ /\ HealthRaise("react")
          /\ UNCHANGED reaction
    /\ UNCHANGED <<status, ppc, outcome, lines, displayed>>
    /\ UNCHANGED cmdVars

\* Line 259: gather re-raises the first exception of a check_service; the
\* other probes keep running.
cmd_health_gather_raises ==
    /\ hpc = "gather"
    /\ \E name \in Services : ppc[name] = "raised"
    /\ HealthRaise("update_message")
    /\ UNCHANGED <<status, ppc, outcome, lines, displayed, reaction>>
    /\ UNCHANGED cmdVars

\* Mutant of cmd_health_except: the failure is shown as a table of failed
\* services with the aggregate failure reaction.
cmd_health_except_as_failure ==
    /\ \/ /\ hpc = "except"
          /\ displayed' = <<"table", StatusLines([name \in Services |-> "error"])>>
          /\ hpc' = "except_react"
          /\ UNCHANGED reaction
       \/ /\ hpc = "except_react"
          /\ reaction' = "thumbs_down"
          /\ hpc' = "critical"
          /\ UNCHANGED displayed
    /\ UNCHANGED <<status, ppc, outcome, lines, cause>>
    /\ UNCHANGED cmdVars

\* Lines 273-274: the critical text replaces the table, then the warning.
cmd_health_except ==
    /\ \/ /\ hpc = "except"
          /\ displayed' = <<"critical", cause>>
          /\ hpc' = "except_react"
          /\ UNCHANGED reaction
       \/ /\ hpc = "except_react"
          /\ reaction' = "warning"
          /\ hpc' = "critical"
          /\ UNCHANGED displayed
    /\ UNCHANGED <<status, ppc, outcome, lines, cause>>
    /\ UNCHANGED cmdVars

-----------------------------------------------------------------------------
(* Specifications *)

HealthIdle ==
    /\ hpc = "idle"
    /\ status = <<>>
    /\ ppc = [name \in Services |-> "unstarted"]
    /\ outcome = [name \in Services |-> "pending"]
    /\ lines = [name \in Services |-> <<>>]
    /\ displayed = <<"none">>
    /\ reaction = "none"
    /\ cause = "none"

CmdIdle ==
    /\ pc = [o \in Ops |-> "idle"]
    /\ kind = [o \in Ops |-> "none"]
    /\ user = [o \in Ops |-> "none"]
    /\ msg = [o \in Ops |-> <<>>]
    /\ text = [o \in Ops |-> <<>>]
    /\ emotions = [o \in Ops |-> Null]
    /\ poem = [o \in Ops |-> "none"]
    /\ limit = [o \in Ops |-> -1]
    /\ notice = [o \in Ops |-> <<>>]
    /\ calls = [o \in Ops |-> <<>>]

\* Concurrent /emotions and /generate operations over one History Store.
Init ==
    /\ CmdIdle
    /\ emotionLog = <<>>
    /\ generationLog = <<>>
    /\ HealthIdle

Next ==
    \E o \in Ops :
        \/ cmd_emotions_parse(o)
        \/ cmd_emotions_get_emotion_api(o)
        \/ cmd_emotions_analyze(o)
        \/ cmd_emotions_log(o)
        \/ cmd_format_parse(o)
        \/ cmd_format_get_handle(o)
        \/ cmd_format_get_database(o)
        \/ cmd_format_analyze(o)
        \/ cmd_format_generate(o)

Spec == Init /\ [][Next]_vars

\* One /history operation over a History Store that already holds records.
HistoryOps == {"op1"}

StoredEmotions ==
    LET r1 == EmotionRecord("u1", [happy |-> 9, sad |-> 1])
        r2 == EmotionRecord("u2", [happy |-> 1, sad |-> 9])
        r3 == EmotionRecord("u1", [happy |-> 1, sad |-> 9])
    IN  {<<>>, <<r1>>, <<r1, r2, r3>>}

StoredGenerations ==
    {<<>>, <<GenerationRecord("u1", <<"a">>, "poem1")>>}

InitHistory ==
    /\ CmdIdle
    /\ emotionLog \in StoredEmotions
    /\ generationLog \in StoredGenerations
    /\ HealthIdle

NextHistory ==
    \E o \in HistoryOps :
        \/ cmd_history_parse(o)
        \/ cmd_history_query(o)

SpecHistory == InitHistory /\ [][NextHistory]_vars

\* One operation of any of the three text commands over a History Store that
\* already holds records.
NextCommand ==
    \E o \in HistoryOps :
        \/ cmd_emotions_parse(o)
        \/ cmd_emotions_get_emotion_api(o)
        \/ cmd_emotions_analyze(o)
        \/ cmd_emotions_log(o)
        \/ cmd_format_parse(o)
        \/ cmd_format_get_handle(o)
        \/ cmd_format_get_database(o)
        \/ cmd_format_analyze(o)
        \/ cmd_format_generate(o)
        \/ cmd_history_parse(o)
        \/ cmd_history_query(o)

SpecCommand == InitHistory /\ [][NextCommand]_vars

\* One /health run.
NextHealth ==
    \/ cmd_health_reply
    \/ cmd_health_react
    \/ cmd_health_update
    \/ cmd_health_gather
    \/ \E name \in Services : check_service(name)
    \/ \E name \in Services : update_message(name)
    \/ cmd_health_final
    \/ cmd_health_gather_raises
    \/ cmd_health_except

SpecHealth == Init /\ [][NextHealth]_vars

-----------------------------------------------------------------------------
(* Properties of cmd_emotions and cmd_format, checked under Spec *)

TextOps == {o \in Ops : kind[o] \in {"emotions", "generate"}}
FormatOps == {o \in Ops : kind[o] = "generate"}
EmotionOps == {o \in Ops : kind[o] = "emotions"}

\* The positions in the call record of o of the entries named `what`.
Entries(o, what) == {i \in 1..Len(calls[o]) : calls[o][i][1] = what}

\* The responses of client call `what` recorded for o.
Responses(o, what) ==
    {calls[o][i][3] : i \in {j \in Entries(o, "response") : calls[o][j][2] = what}}

HasRaised(o) == Entries(o, "raised") # {}

\* The characters of message m after its command token are all whitespace.
BlankArgument(m) ==
    \A i \in 2..Len(m) : m[i] \in Whitespace

\* C1: an /emotions or /generate message whose text argument is empty or
\* whitespace-only ends with the "missing argument" notice, with no call of a
\* service client and no history write; if no other message came, the History
\* Store is as it was.
C1_BlankArgumentShortCircuits ==
    /\ \A o \in TextOps :
         BlankArgument(msg[o]) =>
            /\ pc[o] = "done"
            /\ notice[o] = <<"missing_argument">>
            /\ calls[o] = <<>>
    /\ (\A o \in Ops : kind[o] = "none" \/ (o \in TextOps /\ BlankArgument(msg[o])))
          => emotionLog = <<>> /\ generationLog = <<>>

C1_Witness ==
    /\ kind["op1"] = "emotions" /\ msg["op1"] = <<"/", " ", " ">>
    /\ notice["op1"] = <<"missing_argument">>
    /\ kind["op2"] = "generate" /\ msg["op2"] = <<"/">>
    /\ notice["op2"] = <<"missing_argument">>

C3_EmotionFailureStopsGeneration ==
    \A o \in FormatOps :
        Null \in Responses(o, "analyze_emotions") =>
            /\ Entries(o, "generate_poem") = {}
            /\ Entries(o, "PoetryGenerationRequestDto") = {}
            /\ Entries(o, "log_emotion_analysis") = {}
            /\ Entries(o, "log_generation") = {}
            /\ pc[o] = "done"
            /\ notice[o] = <<"emotion_unavailable">>

C3_Witness ==
    /\ kind["op1"] = "generate"
    /\ Null \in Responses("op1", "analyze_emotions")
    /\ notice["op1"] = <<"emotion_unavailable">>
    /\ emotionLog = <<>>

RECURSIVE SumOver(_, _)
SumOver(S, f) ==
    IF S = {} THEN 0
    ELSE LET x == CHOOSE y \in S : TRUE
         IN  f[x] + SumOver(S \ {x}, f)

\* How many entries named `what` the call records of all operations hold.
TotalEntries(what) ==
    SumOver(Ops, [o \in Ops |-> Cardinality(Entries(o, what))])

\* C4: a /generate operation whose poetry client returned a falsy result, after
\* the emotion step succeeded, writes no GenerationRecord and ends with the
\* "poetry service unavailable" notice; the EmotionRecord it wrote is still in
\* the History Store, from which no operation removes a record.  (A poetry
\* client that raises leaves the same records; its notice is the generic one.)
C4_PoetryFailureKeepsEmotionRecord ==
    /\ \A o \in FormatOps :
         "none" \in Responses(o, "generate_poem") =>
            /\ Entries(o, "log_generation") = {}
            /\ Cardinality(Entries(o, "log_emotion_analysis")) = 1
            /\ \E k \in 1..Len(emotionLog) :
                  /\ emotionLog[k].user_id = user[o]
                  /\ {emotionLog[k].emotions} = Responses(o, "analyze_emotions")
            /\ pc[o] = "done"
            /\ notice[o] = <<"poetry_unavailable">>
    /\ \A o \in FormatOps :
         (\E i \in Entries(o, "raised") : calls[o][i][2] = "generate_poem") =>
            /\ Entries(o, "log_generation") = {}
            /\ Cardinality(Entries(o, "log_emotion_analysis")) = 1
    /\ Len(emotionLog) = TotalEntries("log_emotion_analysis")
    /\ Len(generationLog) = TotalEntries("log_generation")

C4_Witness ==
    /\ kind["op1"] = "generate"
    /\ "none" \in Responses("op1", "generate_poem")
    /\ notice["op1"] = <<"poetry_unavailable">>
    /\ emotionLog = <<EmotionRecord(user["op1"], emotions["op1"])>>
    /\ generationLog = <<>>

\* The place of an entry of the call record in the order of lines 124-148.
CallRank(c) ==
    CASE c[1] = "analyze_emotions" -> 1
      [] c[1] = "response" /\ c[2] = "analyze_emotions" -> 2
      [] c[1] = "log_emotion_analysis" -> 3
      [] c[1] = "PoetryGenerationRequestDto" -> 4
      [] c[1] = "generate_poem" -> 5
      [] c[1] = "response" /\ c[2] = "generate_poem" -> 6
      [] c[1] = "log_generation" -> 7
      [] OTHER -> 8

\* C5: within one /generate operation the events come in the order emotion
\* client call, its response, EmotionRecord write, PoemRequest, poetry client
\* call, its response, GenerationRecord write, each at most once; a PoemRequest
\* or a GenerationRecord write is always preceded by the EmotionRecord write.
C5_GenerateEventOrder ==
    \A o \in FormatOps :
        /\ \A i \in 1..(Len(calls[o]) - 1) :
              CallRank(calls[o][i]) < CallRank(calls[o][i + 1])
        /\ \A j \in Entries(o, "PoetryGenerationRequestDto") \cup Entries(o, "log_generation")
                        \cup Entries(o, "generate_poem") :
              \E i \in Entries(o, "log_emotion_analysis") : i < j
        /\ \A j \in Entries(o, "log_emotion_analysis") :
              \E i \in Entries(o, "analyze_emotions") : i < j
        /\ \A j \in Entries(o, "generate_poem") :
              \E i \in Entries(o, "PoetryGenerationRequestDto") : i < j
        /\ \A j \in Entries(o, "log_generation") :
              \E i \in Entries(o, "generate_poem") : i < j

C5_Witness ==
    /\ kind["op1"] = "generate"
    /\ Len(calls["op1"]) = 7
    /\ Entries("op1", "log_generation") = {7}
    /\ Entries("op1", "log_emotion_analysis") = {3}

\* t is what message m carries after its command token and the whitespace
\* that follows it.
OriginalText(m, t) ==
    /\ t # <<>> /\ t[1] \notin Whitespace
    /\ \E k \in 3..Len(m) :
          /\ SubSeq(m, k, Len(m)) = t
          /\ \A i \in 2..(k - 1) : m[i] \in Whitespace

BothClientsSucceeded(o) ==
    /\ Responses(o, "analyze_emotions") \cap EmotionMaps # {}
    /\ Responses(o, "generate_poem") \cap Poems # {}

\* What C6 promises of operation o.
GenerationLogged(o) ==
    /\ Cardinality(Entries(o, "log_emotion_analysis")) = 1
    /\ \A i \in Entries(o, "log_emotion_analysis") :
          /\ calls[o][i][2] = user[o]
          /\ {calls[o][i][3]} = Responses(o, "analyze_emotions")
          /\ \E k \in 1..Len(emotionLog) :
                emotionLog[k] = [user_id |-> user[o], emotions |-> calls[o][i][3]]
    /\ Cardinality(Entries(o, "log_generation")) = 1
    /\ \A i \in Entries(o, "log_generation") :
          /\ calls[o][i][2] = user[o]
          /\ OriginalText(msg[o], calls[o][i][3])
          /\ {calls[o][i][4]} = Responses(o, "generate_poem")
          /\ \E k \in 1..Len(generationLog) :
                /\ generationLog[k].user_id = user[o]
                /\ generationLog[k].request_text = calls[o][i][3]
                /\ generationLog[k].response_text = calls[o][i][4]
          /\ notice[o] = <<"poem", calls[o][i][4]>>

-----------------------------------------------------------------------------
(* Properties of cmd_history, checked under SpecHistory *)

HistoryRuns == {o \in HistoryOps : kind[o] = "history"}

\* The limit argument of message m, or <<>> if it has none.
LimitArgument(m) == IF Len(Split(m)) > 1 THEN Split(m)[2] ELSE <<>>

\* token is a non-negative decimal number.
IsDecimal(token) ==
    /\ token # <<>>
    /\ \A i \in 1..Len(token) : token[i] \in DecimalChars

\* Operation o computed limit n, and queries the History Store with nothing else.
LimitIs(o, n) ==
    /\ limit[o] = n
    /\ pc[o] = "get_database" \/ Entries(o, "raised") \cup Entries(o, "get_user_history") # {}
    /\ \A i \in Entries(o, "get_user_history") : calls[o][i][3] = n

-----------------------------------------------------------------------------
(* Properties of cmd_health, checked under SpecHealth *)

\* check_service(name) is past its wait_for.
Settled(name) == ppc[name] \in {"edit_text", "done", "raised"}

TimedOut == {name \in Services : outcome[name] = "timeout"}

\* C9: a probe whose wait_for timed out has status `error` from then on, and
\* goes on to update_message like any other probe: what reaches the handler's
\* except is never the timeout.  Once all probes have returned after a timeout
\* the aggregate is failure, and so is the final reaction of the run.
C9_TimeoutBecomesError ==
    /\ \A name \in TimedOut :
          /\ status[name] = "error"
          /\ Settled(name)
          /\ lines[name] # <<>>
    /\ \A name \in Services : Settled(name) => status[name] # "checking"
    /\ hpc \in {"except", "except_react", "critical"} =>
          cause \in {"react", "update_message",
                     "get_emotion_api", "get_poetry_api", "get_database"}
    /\ (TimedOut # {} /\ \A name \in Services : ppc[name] = "done") =>
          final_emoji(status) = "thumbs_down"
    /\ (TimedOut # {} /\ hpc = "done") => reaction = "thumbs_down"

C9_Witness ==
    /\ hpc = "done"
    /\ outcome = [name \in Services |-> IF name = "poetry" THEN "timeout" ELSE "true"]
    /\ status["poetry"] = "error"
    /\ reaction = "thumbs_down"

\* C10: when the run ends with its final reaction, every probe has settled and
\* the reaction is thumbs-up if and only if every status is `success`,
\* thumbs-down if and only if some status is `error`; with every checker
\* returning a truthy result in time it is thumbs-up.
C10_FinalSignal ==
    /\ hpc = "done" =>
          /\ \A name \in Services : status[name] \in {"success", "error"}
          /\ reaction \in {"thumbs_up", "thumbs_down"}
          /\ reaction = "thumbs_up" <=> \A name \in Services : status[name] = "success"
          /\ reaction = "thumbs_down" <=> \E name \in Services : status[name] = "error"
          /\ (\A name \in Services : outcome[name] = "true") => reaction = "thumbs_up"
          /\ (\E name \in Services : outcome[name] # "true") => reaction = "thumbs_down"
    /\ reaction \in {"thumbs_up", "thumbs_down"} => hpc = "done"

C10_Witness ==
    /\ hpc = "done"
    /\ \A name \in Services : outcome[name] = "true" /\ status[name] = "success"
    /\ reaction = "thumbs_up"
    /\ displayed = <<"table", StatusLines(status)>>

AggregateSignals == {"thumbs_up", "thumbs_down"}

\* C11: the step that sets the aggregate success/failure reaction is taken
\* only when every check_service has returned; at that moment no status is
\* `checking`, and the step leaves the status dict as it is.
C11_SignalAfterAllSettled ==
    [][(reaction' \in AggregateSignals /\ reaction' # reaction) =>
          /\ \A name \in Services :
                /\ ppc[name] = "done"
                /\ outcome[name] # "pending"
                /\ status[name] \in {"success", "error"}
          /\ status' = status]_vars

C11_Witness ==
    /\ reaction = "thumbs_down"
    /\ outcome = [name \in Services |-> IF name = "emotion" THEN "false" ELSE "true"]
    /\ \A name \in Services : status[name] # "checking"

\* The handler's except clause was entered by an exception that no
\* check_service raised: a reaction, the first update_message or a handle.
FailedOutsideProbes ==
    /\ hpc \in {"except", "except_react", "critical"}
    /\ \A name \in Services : ppc[name] # "raised"

\* C12: when cmd_health fails outside the probes, the except clause goes on
\* until the critical text with the exception is what the reply message shows
\* and the warning is the reaction of the run; the reaction of such a run is
\* never the aggregate thumbs-up or thumbs-down.
C12_CriticalOutcome ==
    FailedOutsideProbes =>
        /\ cause \in {"react", "update_message",
                      "get_emotion_api", "get_poetry_api", "get_database"}
        /\ reaction \notin AggregateSignals
        /\ hpc # "critical" => ENABLED cmd_health_except
        /\ hpc \in {"except_react", "critical"} => displayed = <<"critical", cause>>
        /\ hpc = "critical" => reaction = "warning"

C12_Witness ==
    /\ hpc = "critical"
    /\ cause = "get_poetry_api"
    /\ \A name \in Services : ppc[name] = "unstarted"
    /\ displayed = <<"critical", "get_poetry_api">>
    /\ reaction = "warning"

-----------------------------------------------------------------------------
(* Properties of the three text commands, checked under SpecCommand *)

\* C13: in cmd_emotions, cmd_format and cmd_history an exception, whether of a
\* service client, of the History Store or of the handler's own code, is the
\* last thing the operation does before its except clause: the handler has
\* returned, its reply is the generic failure notice, nothing was called after
\* the exception, and no operation is ever left by an exception.
C13_ExceptionCaughtAtBoundary ==
    \A o \in Ops :
        /\ pc[o] # "propagated"
        /\ HasRaised(o) =>
              /\ pc[o] = "done"
              /\ notice[o] = <<"error">>
              /\ Entries(o, "raised") = {Len(calls[o])}
        /\ notice[o] = <<"error">> => HasRaised(o)

C13_Witness ==
    /\ kind["op1"] = "history"
    /\ pc["op1"] = "done"
    /\ calls["op1"] = << <<"raised", "get_user_history">> >>
    /\ notice["op1"] = <<"error">>
    /\ emotionLog # <<>>

-----------------------------------------------------------------------------
(* Properties of concurrent cmd_format operations, checked under Spec *)

\* The positions in the call record of o at which a PoemRequest is built or sent.
PoemRequests(o) == Entries(o, "PoetryGenerationRequestDto") \cup Entries(o, "generate_poem")

\* C14: with two /generate operations interleaved in any way, of one user or
\* of two, every PoemRequest built and every one sent to the poetry client
\* carries the user_id of its own operation and the emotions of the one result
\* the emotion client gave earlier in that operation, which are also the
\* emotions of the EmotionRecord that operation wrote before; there is no
\* PoemRequest in an operation without such a result.
C14_PoemRequestFromOwnEmotions ==
    \A o \in FormatOps :
        \A i \in PoemRequests(o) :
            /\ calls[o][i][2] = user[o]
            /\ calls[o][i][3] \in EmotionMaps
            /\ calls[o][i][3] = emotions[o]
            /\ Responses(o, "analyze_emotions") = {calls[o][i][3]}
            /\ \E j \in Entries(o, "response") :
                  /\ j < i
                  /\ calls[o][j][2] = "analyze_emotions"
            /\ \E k \in Entries(o, "log_emotion_analysis") :
                  /\ k < i
                  /\ calls[o][k][2] = user[o]
                  /\ calls[o][k][3] = calls[o][i][3]
            /\ \E n \in 1..Len(emotionLog) :
                  emotionLog[n] = EmotionRecord(user[o], calls[o][i][3])

C14_Witness ==
    /\ FormatOps = Ops
    /\ user["op1"] = user["op2"]
    /\ emotions["op1"] \in EmotionMaps
    /\ emotions["op2"] \in EmotionMaps
    /\ emotions["op1"] # emotions["op2"]
    /\ pc["op1"] = "generate_poem"
    /\ pc["op2"] = "generate_poem"
    /\ \A o \in Ops : Entries(o, "generate_poem") # {}

-----------------------------------------------------------------------------
(* Properties of the status dict of cmd_health, checked under SpecHealth *)

\* C15: the status dict is created with every service `checking`; a step
\* changes the status of a service only from `checking`, and only to `success`
\* or `error`, so a status changes at most once in a run and a `success` or
\* an `error` stays.
C15_StatusStateMachine ==
    [][/\ status = <<>> => status' \in {status, [name \in Services |-> "checking"]}
       /\ status # <<>> =>
             /\ DOMAIN status' = Services
             /\ \A name \in Services :
                   status'[name] # status[name] =>
                       /\ status[name] = "checking"
                       /\ status'[name] \in {"success", "error"}]_vars

C15_Witness ==
    /\ status = [name \in Services |->
                    IF name = "emotion" THEN "success"
                    ELSE IF name = "poetry" THEN "error" ELSE "checking"]
    /\ ppc["emotion"] = "done"
    /\ ppc["poetry"] = "done"
    /\ ppc["database"] = "wait_for"

\* The status that the outcome of a service's own wait_for stands for.
OwnStatus(name) == IF outcome[name] = "true" THEN "success" ELSE "error"

\* C16: in whatever order the wait_for of the three probes end, the step in
\* which a probe writes its status leaves the entries of the other services
\* as they were, and the entry of every probe that is past its wait_for is
\* the status of that probe's own outcome; so it is for all three once all
\* have settled.
C16_NoLostStatusWrite ==
    /\ [](\A name \in Services : Settled(name) => status[name] = OwnStatus(name))
    /\ [][\A name \in Services :
             (ppc[name] = "wait_for" /\ ppc'[name] # "wait_for") =>
                 \A other \in Services \ {name} : status'[other] = status[other]]_vars

C16_Witness ==
    /\ \A name \in Services : ppc[name] = "edit_text"
    /\ outcome = [name \in Services |->
                     IF name = "emotion" THEN "true"
                     ELSE IF name = "poetry" THEN "false" ELSE "raised"]
    /\ status = [name \in Services |-> IF name = "emotion" THEN "success" ELSE "error"]

\* The step in which the checker of service name raises.
CheckerRaises(name) == outcome[name] = "pending" /\ outcome'[name] = "raised"

\* C17: the step in which a service's checker raises sets that service's
\* status to `error` and goes on to render; it leaves the handler where it
\* is and the status, the outcome and the position of the other probes as
\* they are.  A probe that has not settled can still do so, a settled
\* sibling keeps the status of its own outcome, and once every probe has
\* returned the step to the final reaction can be taken.
C17_ProbeExceptionIsolated ==
    /\ [][\A name \in Services :
             CheckerRaises(name) =>
                 /\ status'[name] = "error"
                 /\ ppc'[name] = "edit_text"
                 /\ <<hpc, cause, reaction>>' = <<hpc, cause, reaction>>
                 /\ \A other \in Services \ {name} :
                       /\ status'[other] = status[other]
                       /\ outcome'[other] = outcome[other]
                       /\ ppc'[other] = ppc[other]]_vars
    /\ [](\A name \in Services :
             outcome[name] = "raised" =>
                 /\ status[name] = "error"
                 /\ \A other \in Services \ {name} :
                       /\ ppc[other] = "wait_for" => ENABLED check_service(other)
                       /\ Settled(other) => status[other] = OwnStatus(other)
                 /\ (hpc = "gather" /\ \A other \in Services : ppc[other] = "done")
                       => ENABLED cmd_health_final)

C17_Witness ==
    /\ hpc = "done"
    /\ outcome = [name \in Services |-> IF name = "emotion" THEN "raised" ELSE "true"]
    /\ status = [name \in Services |-> IF name = "emotion" THEN "error" ELSE "success"]
    /\ reaction = "thumbs_down"

-----------------------------------------------------------------------------
(* Properties of the renders of cmd_health, checked under SpecHealth *)

\* The handler has sent its closing notification: the final reaction, or the
\* critical text and the warning.
Concluded == hpc \in {"done", "critical"}

Launched == \A name \in Services : ppc[name] # "unstarted"

ServiceIndex(name) == CHOOSE i \in DOMAIN service_order : service_order[i] = name

\* An edit that was applied carried a table computed after the status of
\* service name had left `checking`.
RenderedAfterTransition(name) ==
    \E by \in Services :
        /\ ppc[by] = "done"
        /\ lines[by][ServiceIndex(name)] = StatusLine(name, status[name])

\* C18: when a run that launched its probes has sent its closing
\* notification, the status of every service has left `checking` and an edit
\* with a table computed after that has been applied.
C18_TransitionRenderedBeforeClose ==
    (Concluded /\ Launched) =>
        \A name \in Services :
            /\ status[name] \in {"success", "error"}
            /\ RenderedAfterTransition(name)

\* C19: when the run has set its aggregate reaction, the reply message shows
\* the status table of the final status dict: no service as `checking`, every
\* service with the status it ended with.
C19_DisplayedTableIsFinal ==
    (hpc = "done" /\ reaction \in AggregateSignals) =>
        /\ displayed[1] = "table"
        /\ \A name \in Services :
              /\ displayed[2][ServiceIndex(name)][1] # "hourglass"
              /\ displayed[2][ServiceIndex(name)] = StatusLine(name, status[name])

ProbeInProgress(name) == ppc[name] \in {"wait_for", "edit_text"}

\* C20: once the handler has sent its closing notification no probe is in
\* progress, and no later step changes the status dict, the position of a
\* probe or what the reply message shows.
C20_NoProbeAfterClose ==
    /\ [](Concluded => \A name \in Services : ~ProbeInProgress(name))
    /\ [][Concluded => <<status, ppc, displayed>>' = <<status, ppc, displayed>>]_vars

====
